---- MODULE Spec2Model ----
(***************************************************************************)
(* Model of sorting/compare_lookup.py: the generator of the 16x16 table of *)
(* type relations used by compare_tuple.go.                                *)
(*                                                                         *)
(* State: the module-level dictionary strict_less_lookup, the two loop     *)
(* variables of the generator relations(), the list r that main() builds   *)
(* from it, the text go that main() prints, and the position pc.           *)
(***************************************************************************)
EXTENDS Integers, Sequences, FiniteSets

VARIABLES strict_less_lookup, type1, type2, r, go, pc

vars == <<strict_less_lookup, type1, type2, r, go, pc>>

(* ------------------------------ type tags ------------------------------ *)

NULL == 0

BOOL == 1

UINT == 2

INT == 3

FLOAT == 4

DECIMAL == 5

TIMESTAMP == 6

SYMBOL == 7

\* STRING of the source; STRING is a reserved word of TLA+.
STRING_TAG == 8

CLOB == 9

BLOB == 10

LIST == 11

SEXP == 12

STRUCT == 13

ANNOTATION == 14

RESERVED == 15

\* range(16) of relations()
NumTypes == 16

TypeTags == 0 .. (NumTypes - 1)

(* --------------------------- relation vocabulary ----------------------- *)

Less == "alwaysLess"

Greater == "alwaysGreater"

CompareSameType == "compareSameType"

CompareDifferentTypes == "compareDifferentTypes"

Invalid == "unsupportedRelation"

(* ------------------------- the authored dictionary --------------------- *)

\* Mutant: the entry FLOAT -> DECIMAL added.
StrictLessLookupFloatDecimal ==
  [k \in {BOOL, UINT, INT, FLOAT, DECIMAL, TIMESTAMP, STRING_TAG, CLOB, BLOB, LIST, SEXP} |->
    CASE k = BOOL -> {UINT, INT, FLOAT, DECIMAL, TIMESTAMP, SYMBOL, STRING_TAG, CLOB, BLOB, LIST, SEXP, STRUCT}
      [] k = UINT -> {TIMESTAMP, SYMBOL, STRING_TAG, CLOB, BLOB, LIST, SEXP, STRUCT}
      [] k = INT -> {UINT, TIMESTAMP, SYMBOL, STRING_TAG, CLOB, BLOB, LIST, SEXP, STRUCT}
      [] k = FLOAT -> {DECIMAL, TIMESTAMP, SYMBOL, STRING_TAG, CLOB, BLOB, LIST, SEXP, STRUCT}
      [] k = DECIMAL -> {TIMESTAMP, SYMBOL, STRING_TAG, CLOB, BLOB, LIST, SEXP, STRUCT}
      [] k = TIMESTAMP -> {SYMBOL, STRING_TAG, CLOB, BLOB, LIST, SEXP, STRUCT}
      [] k = STRING_TAG -> {STRING_TAG, CLOB, BLOB, LIST, SEXP, STRUCT}
      [] k = CLOB -> {LIST, SEXP, STRUCT}
      [] k = BLOB -> {LIST, SEXP, STRUCT}
      [] k = LIST -> {STRUCT}
      [] k = SEXP -> {STRUCT}]

\* Mutant: the entry TIMESTAMP -> STRING dropped.
StrictLessLookupNoTimestampString ==
  [k \in {BOOL, UINT, INT, FLOAT, DECIMAL, TIMESTAMP, STRING_TAG, CLOB, BLOB, LIST, SEXP} |->
    CASE k = BOOL -> {UINT, INT, FLOAT, DECIMAL, TIMESTAMP, SYMBOL, STRING_TAG, CLOB, BLOB, LIST, SEXP, STRUCT}
      [] k = UINT -> {TIMESTAMP, SYMBOL, STRING_TAG, CLOB, BLOB, LIST, SEXP, STRUCT}
      [] k = INT -> {UINT, TIMESTAMP, SYMBOL, STRING_TAG, CLOB, BLOB, LIST, SEXP, STRUCT}
      [] k = FLOAT -> {TIMESTAMP, SYMBOL, STRING_TAG, CLOB, BLOB, LIST, SEXP, STRUCT}
      [] k = DECIMAL -> {TIMESTAMP, SYMBOL, STRING_TAG, CLOB, BLOB, LIST, SEXP, STRUCT}
      [] k = TIMESTAMP -> {SYMBOL, CLOB, BLOB, LIST, SEXP, STRUCT}
      [] k = STRING_TAG -> {STRING_TAG, CLOB, BLOB, LIST, SEXP, STRUCT}
      [] k = CLOB -> {LIST, SEXP, STRUCT}
      [] k = BLOB -> {LIST, SEXP, STRUCT}
      [] k = LIST -> {STRUCT}
      [] k = SEXP -> {STRUCT}]

\* Mutant: the entry BOOL -> UINT dropped (INT -> UINT and BOOL -> INT kept).
StrictLessLookupNoBoolUint ==
  [k \in {BOOL, UINT, INT, FLOAT, DECIMAL, TIMESTAMP, STRING_TAG, CLOB, BLOB, LIST, SEXP} |->
    CASE k = BOOL -> {INT, FLOAT, DECIMAL, TIMESTAMP, SYMBOL, STRING_TAG, CLOB, BLOB, LIST, SEXP, STRUCT}
      [] k = UINT -> {TIMESTAMP, SYMBOL, STRING_TAG, CLOB, BLOB, LIST, SEXP, STRUCT}
      [] k = INT -> {UINT, TIMESTAMP, SYMBOL, STRING_TAG, CLOB, BLOB, LIST, SEXP, STRUCT}
      [] k = FLOAT -> {TIMESTAMP, SYMBOL, STRING_TAG, CLOB, BLOB, LIST, SEXP, STRUCT}
      [] k = DECIMAL -> {TIMESTAMP, SYMBOL, STRING_TAG, CLOB, BLOB, LIST, SEXP, STRUCT}
      [] k = TIMESTAMP -> {SYMBOL, STRING_TAG, CLOB, BLOB, LIST, SEXP, STRUCT}
      [] k = STRING_TAG -> {STRING_TAG, CLOB, BLOB, LIST, SEXP, STRUCT}
      [] k = CLOB -> {LIST, SEXP, STRUCT}
      [] k = BLOB -> {LIST, SEXP, STRUCT}
      [] k = LIST -> {STRUCT}
      [] k = SEXP -> {STRUCT}]

\* The dictionary literal: a key maps to the set of tags strictly after it;
\* NULL, SYMBOL, STRUCT, ANNOTATION and RESERVED are not keys.
StrictLessLookup ==
  [k \in {BOOL, UINT, INT, FLOAT, DECIMAL, TIMESTAMP, STRING_TAG, CLOB, BLOB, LIST, SEXP} |->
    CASE k = BOOL -> {UINT, INT, FLOAT, DECIMAL, TIMESTAMP, SYMBOL, STRING_TAG, CLOB, BLOB, LIST, SEXP, STRUCT}
      [] k = UINT -> {TIMESTAMP, SYMBOL, STRING_TAG, CLOB, BLOB, LIST, SEXP, STRUCT}
      [] k = INT -> {UINT, TIMESTAMP, SYMBOL, STRING_TAG, CLOB, BLOB, LIST, SEXP, STRUCT}
      [] k = FLOAT -> {TIMESTAMP, SYMBOL, STRING_TAG, CLOB, BLOB, LIST, SEXP, STRUCT}
      [] k = DECIMAL -> {TIMESTAMP, SYMBOL, STRING_TAG, CLOB, BLOB, LIST, SEXP, STRUCT}
      [] k = TIMESTAMP -> {SYMBOL, STRING_TAG, CLOB, BLOB, LIST, SEXP, STRUCT}
      [] k = STRING_TAG -> {STRING_TAG, CLOB, BLOB, LIST, SEXP, STRUCT}
      [] k = CLOB -> {LIST, SEXP, STRUCT}
      [] k = BLOB -> {LIST, SEXP, STRUCT}
      [] k = LIST -> {STRUCT}
      [] k = SEXP -> {STRUCT}]

(* ------------------------------ predicates ----------------------------- *)

\* Mutant: STRUCT forgotten in the tuple of unsupported tags.
not_supported_no_struct(t) == t \in {SYMBOL, SEXP, ANNOTATION, RESERVED}

not_supported(t) == t \in {SYMBOL, SEXP, STRUCT, ANNOTATION, RESERVED}

numeric(t) == t \in {UINT, INT, FLOAT, DECIMAL}

\* type2 in strict_less_lookup[type1]; a missing key (KeyError) gives False.
strict_less_aux(type1_, type2_) ==
  IF type1_ \in DOMAIN strict_less_lookup
    THEN type2_ \in strict_less_lookup[type1_]
    ELSE FALSE

\* Mutant: the same-type test moved after the strict-less tests.
relation_same_type_last(type1_, type2_) ==
  IF not_supported(type1_) \/ not_supported(type2_) THEN Invalid
  ELSE IF strict_less_aux(type1_, type2_) THEN Less
  ELSE IF strict_less_aux(type2_, type1_) THEN Greater
  ELSE IF type1_ = type2_ THEN CompareSameType
  ELSE CompareDifferentTypes

\* Mutant: the same-type test moved before the unsupported test.
relation_same_type_first(type1_, type2_) ==
  IF type1_ = type2_ THEN CompareSameType
  ELSE IF not_supported(type1_) \/ not_supported(type2_) THEN Invalid
  ELSE IF strict_less_aux(type1_, type2_) THEN Less
  ELSE IF strict_less_aux(type2_, type1_) THEN Greater
  ELSE CompareDifferentTypes

\* Mutant: the reverse lookup tested before the forward lookup.
relation_reverse_first(type1_, type2_) ==
  IF not_supported(type1_) \/ not_supported(type2_) THEN Invalid
  ELSE IF type1_ = type2_ THEN CompareSameType
  ELSE IF strict_less_aux(type2_, type1_) THEN Greater
  ELSE IF strict_less_aux(type1_, type2_) THEN Less
  ELSE CompareDifferentTypes

\* Mutant: the reverse branch returns Less as well.
relation_reverse_less(type1_, type2_) ==
  IF not_supported(type1_) \/ not_supported(type2_) THEN Invalid
  ELSE IF type1_ = type2_ THEN CompareSameType
  ELSE IF strict_less_aux(type1_, type2_) THEN Less
  ELSE IF strict_less_aux(type2_, type1_) THEN Less
  ELSE CompareDifferentTypes

relation(type1_, type2_) ==
  IF not_supported(type1_) \/ not_supported(type2_) THEN Invalid
  ELSE IF type1_ = type2_ THEN CompareSameType
  ELSE IF strict_less_aux(type1_, type2_) THEN Less
  ELSE IF strict_less_aux(type2_, type1_) THEN Greater
  ELSE CompareDifferentTypes

(* ------------------------------ the program ---------------------------- *)

\* sep.join(s), computed by halves.
RECURSIVE join(_, _)
join(sep, s) ==
  IF Len(s) = 0 THEN ""
  ELSE IF Len(s) = 1 THEN s[1]
  ELSE LET h == Len(s) \div 2
       IN join(sep, SubSeq(s, 1, h)) \o sep \o join(sep, SubSeq(s, h + 1, Len(s)))

\* Mutant: the arguments of relation swapped in the yield.
yielded_swapped == relation(type2, type1)

\* The value of `yield relation(type1, type2)`.
yielded == relation(type1, type2)

\* The module is loaded, main() has called list(relations()) and the
\* generator stands at its first yield.
Init ==
  /\ strict_less_lookup = StrictLessLookup
  /\ type1 = 0
  /\ type2 = 0
  /\ r = <<>>
  /\ go = ""
  /\ pc = "relations"

\* One yield of relations(), appended to the list by list(), and the advance
\* of the two nested range(16) loops to the next yield or past the last.
Yield ==
  /\ pc = "relations"
  /\ type1 < NumTypes
  /\ r' = Append(r, yielded)
  /\ IF type2 + 1 < NumTypes
       THEN /\ type2' = type2 + 1
            /\ type1' = type1
       ELSE /\ type2' = 0
            /\ type1' = type1 + 1
  /\ UNCHANGED <<strict_less_lookup, go, pc>>

\* The outer loop is over: the generator returns and list() hands r to main().
Return ==
  /\ pc = "relations"
  /\ type1 = NumTypes
  /\ pc' = "main"
  /\ UNCHANGED <<strict_less_lookup, type1, type2, r, go>>

\* main() renders the Go array literal and prints it.
Main ==
  /\ pc = "main"
  /\ go' = "var typesRelation [256]TypesRelation{" \o join(", ", r) \o "}"
  /\ pc' = "done"
  /\ UNCHANGED <<strict_less_lookup, type1, type2, r>>

Next == Yield \/ Return \/ Main

Spec == Init /\ [][Next]_vars

(* ---------------------- edited strict-less tables ---------------------- *)

\* The most entries an edit of the authored dictionary adds or discards.
MaxEdits == 1

\* The tags an edit may touch: a tag that is no key (NULL), keys of every
\* kind (BOOL, two numeric tags, STRING, BLOB, LIST) and an unsupported tag
\* that is no key (STRUCT).
EditTags == {NULL, BOOL, UINT, INT, STRING_TAG, BLOB, LIST, STRUCT}

\* The dictionary with v added to the set of key k, k becoming a key if it was none.
AddEntry(tbl, k, v) ==
  [x \in DOMAIN tbl \cup {k} |->
    (IF x \in DOMAIN tbl THEN tbl[x] ELSE {}) \cup (IF x = k THEN {v} ELSE {})]

\* The dictionary with v taken out of the set of key k; k stays a key.
DiscardEntry(tbl, k, v) ==
  [x \in DOMAIN tbl |-> IF x = k THEN tbl[x] \ {v} ELSE tbl[x]]

RECURSIVE EditedTables(_)
EditedTables(n) ==
  IF n = 0 THEN {StrictLessLookup}
  ELSE LET prev == EditedTables(n - 1)
       IN prev
          \cup {AddEntry(t, k, v) : t \in prev, k \in EditTags, v \in EditTags}
          \cup UNION {{DiscardEntry(t, k, v) : k \in DOMAIN t \cap EditTags, v \in EditTags} :
                      t \in prev}

\* The program run on a dictionary that was edited before the run.
InitEdited ==
  /\ strict_less_lookup \in EditedTables(MaxEdits)
  /\ type1 = 0
  /\ type2 = 0
  /\ r = <<>>
  /\ go = ""
  /\ pc = "relations"

SpecEdited == InitEdited /\ [][Next]_vars

(* ------------------------- vocabulary of the claims -------------------- *)

Unsupported == {SYMBOL, SEXP, STRUCT, ANNOTATION, RESERVED}

Supported == TypeTags \ Unsupported

Numeric == {UINT, INT, FLOAT, DECIMAL}

\* Position of the pair (a, b) in the list r, row-major and 1-based.
Index(a, b) == a * NumTypes + b + 1

\* The generator has yielded the relation of the pair (a, b).
Emitted(a, b) == Index(a, b) <= Len(r)

Entry(a, b) == r[Index(a, b)]

\* The dictionary claims both a < b and b < a for two distinct supported tags.
Contradictory(a, b) ==
  /\ a # b
  /\ a \in Supported
  /\ b \in Supported
  /\ strict_less_aux(a, b)
  /\ strict_less_aux(b, a)

(* --------------------------------- C1 ---------------------------------- *)

\* C1: whatever the strict-less dictionary holds, a pair with an unsupported
\* tag (SYMBOL, SEXP, STRUCT, ANNOTATION, RESERVED) on either side has the
\* relation Invalid, the pair of a tag with itself included, and the entry
\* the generator yields for it is Invalid.
C1_UnsupportedDominance ==
  \A a \in TypeTags, b \in TypeTags :
    (a \in Unsupported \/ b \in Unsupported) =>
      /\ relation(a, b) = Invalid
      /\ Emitted(a, b) => Entry(a, b) = Invalid

\* An edited dictionary says STRUCT < LIST and LIST < STRUCT, and the entries
\* yielded for (SYMBOL, SYMBOL), (LIST, STRUCT) and (STRUCT, LIST) are Invalid.
C1_Witness ==
  /\ strict_less_aux(STRUCT, LIST)
  /\ strict_less_aux(LIST, STRUCT)
  /\ Emitted(STRUCT, LIST)
  /\ Entry(SYMBOL, SYMBOL) = Invalid
  /\ Entry(LIST, STRUCT) = Invalid
  /\ Entry(STRUCT, LIST) = Invalid

(* --------------------------------- C2 ---------------------------------- *)

\* C2 as stated: the entry yielded for (t, t) is CompareSameType for every
\* tag t in 0..15.
C2_Original ==
  \A t \in TypeTags : Emitted(t, t) => Entry(t, t) = CompareSameType

\* C2 amended: relation(t, t) is CompareSameType for every supported tag t,
\* STRING included although the dictionary lists STRING under STRING, and
\* Invalid for every unsupported tag t.
C2_ReflexiveOnSupported ==
  \A t \in TypeTags :
    /\ relation(t, t) = (IF t \in Unsupported THEN Invalid ELSE CompareSameType)
    /\ Emitted(t, t) => Entry(t, t) = relation(t, t)

C2_Witness ==
  /\ Emitted(STRING_TAG, STRING_TAG)
  /\ strict_less_aux(STRING_TAG, STRING_TAG)
  /\ Entry(STRING_TAG, STRING_TAG) = CompareSameType
  /\ Entry(SYMBOL, SYMBOL) = Invalid

(* --------------------------------- C3 ---------------------------------- *)

C4_Antisymmetry ==
  \A a \in TypeTags, b \in TypeTags :
    /\ (a # b /\ a \in Supported /\ b \in Supported) =>
         /\ relation(a, b) = Less <=> relation(b, a) = Greater
         /\ (Emitted(a, b) /\ Emitted(b, a)) =>
              (Entry(a, b) = Less <=> Entry(b, a) = Greater)
    /\ \A v \in {CompareSameType, CompareDifferentTypes, Invalid} :
         /\ relation(a, b) = v <=> relation(b, a) = v
         /\ (Emitted(a, b) /\ Emitted(b, a)) =>
              (Entry(a, b) = v <=> Entry(b, a) = v)

C4_Witness ==
  /\ Emitted(LIST, BOOL)
  /\ Entry(BOOL, LIST) = Less
  /\ Entry(LIST, BOOL) = Greater
  /\ Entry(INT, UINT) = Less
  /\ Entry(UINT, INT) = Greater
  /\ Entry(CLOB, BLOB) = CompareDifferentTypes
  /\ Entry(BLOB, CLOB) = CompareDifferentTypes
  /\ Entry(NULL, SYMBOL) = Invalid
  /\ Entry(SYMBOL, NULL) = Invalid

(* --------------------------------- C5 ---------------------------------- *)

\* C5 as stated: an entry CompareDifferentTypes is yielded only for a pair
\* of numeric tags.
C5_Original ==
  \A a \in TypeTags, b \in TypeTags :
    (Emitted(a, b) /\ Entry(a, b) = CompareDifferentTypes) =>
      (a \in Numeric /\ b \in Numeric)

\* C5 amended: relation(a, b) is CompareDifferentTypes only when a and b
\* are distinct supported tags and either both are numeric, or one of them
\* is NULL, or they are CLOB and BLOB.
C5_DifferentTypesOnlyFor ==
  \A a \in TypeTags, b \in TypeTags :
    LET allowed ==
          /\ a # b
          /\ a \in Supported
          /\ b \in Supported
          /\ \/ a \in Numeric /\ b \in Numeric
             \/ NULL \in {a, b}
             \/ {a, b} = {CLOB, BLOB}
    IN /\ relation(a, b) = CompareDifferentTypes => allowed
       /\ (Emitted(a, b) /\ Entry(a, b) = CompareDifferentTypes) => allowed

C5_Witness ==
  /\ Emitted(BLOB, CLOB)
  /\ Entry(NULL, BOOL) = CompareDifferentTypes
  /\ Entry(BOOL, NULL) = CompareDifferentTypes
  /\ Entry(FLOAT, DECIMAL) = CompareDifferentTypes
  /\ Entry(CLOB, BLOB) = CompareDifferentTypes
  /\ Entry(BLOB, CLOB) = CompareDifferentTypes

(* --------------------------------- C6 ---------------------------------- *)

\* C6 as stated: the entry yielded for (STRUCT, LIST) is Greater.
C6_Original ==
  Emitted(STRUCT, LIST) => Entry(STRUCT, LIST) = Greater

\* C6 amended: relation(STRUCT, LIST) is Invalid, STRUCT being unsupported,
\* although the dictionary lists STRUCT under LIST; so is the yielded entry.
C6_StructListInvalid ==
  /\ relation(STRUCT, LIST) = Invalid
  /\ Emitted(STRUCT, LIST) => Entry(STRUCT, LIST) = Invalid

C6_Witness ==
  /\ Emitted(STRUCT, LIST)
  /\ strict_less_aux(LIST, STRUCT)
  /\ ~ strict_less_aux(STRUCT, LIST)
  /\ Entry(STRUCT, LIST) = Invalid

(* --------------------------------- C7 ---------------------------------- *)

\* C7: the generator yields exactly 256 values and is then exhausted; the
\* k-th value yielded (k from 0) is relation(k div 16, k mod 16), type1 being
\* the outer index and type2 the inner one.
C7_FullTable ==
  /\ Len(r) <= 256
  /\ \A k \in 0 .. (Len(r) - 1) : r[k + 1] = relation(k \div 16, k % 16)
  /\ pc = "relations" => Len(r) = type1 * 16 + type2
  /\ pc # "relations" => Len(r) = 256

C7_Witness ==
  /\ pc = "done"
  /\ Len(r) = 256
  /\ r[1 * 16 + 2 + 1] = Less
  /\ r[2 * 16 + 1 + 1] = Greater

(* --------------------------------- C8 ---------------------------------- *)

\* C8: the authored dictionary is asymmetric: whenever strict_less_aux(A, B)
\* holds, A = B included, strict_less_aux(B, A) does not.
C8_TableAsymmetric ==
  \A A \in TypeTags, B \in TypeTags :
    strict_less_aux(A, B) => ~ strict_less_aux(B, A)

(* --------------------------------- C9 ---------------------------------- *)

\* C9: whatever the dictionary holds, for distinct supported tags a and b
\* with both strict_less_aux(a, b) and strict_less_aux(b, a) true,
\* relation(a, b) is Less and so is relation(b, a), and these are the
\* entries the generator yields.
C9_ContradictionYieldsLess ==
  \A a \in TypeTags, b \in TypeTags :
    Contradictory(a, b) =>
      /\ relation(a, b) = Less
      /\ relation(b, a) = Less
      /\ Emitted(a, b) => Entry(a, b) = Less

\* A run on a dictionary edited to say UINT < BOOL beside BOOL < UINT has
\* yielded Less for both (BOOL, UINT) and (UINT, BOOL) and has finished.
C9_Witness ==
  /\ Contradictory(BOOL, UINT)
  /\ pc = "done"
  /\ Entry(BOOL, UINT) = Less
  /\ Entry(UINT, BOOL) = Less

(* --------------------------------- C10 --------------------------------- *)

\* C10: with the authored dictionary the derived order is transitive on
\* supported tags: relation(a, b) = Less and relation(b, c) = Less give
\* relation(a, c) = Less, in the function and in the yielded grid.
C10_Transitive ==
  \A a \in Supported, b \in Supported, c \in Supported :
    /\ (relation(a, b) = Less /\ relation(b, c) = Less) => relation(a, c) = Less
    /\ (Emitted(a, b) /\ Emitted(b, c) /\ Emitted(a, c)) =>
         ((Entry(a, b) = Less /\ Entry(b, c) = Less) => Entry(a, c) = Less)

C10_Witness ==
  /\ Emitted(INT, UINT)
  /\ Entry(BOOL, INT) = Less
  /\ Entry(INT, UINT) = Less
  /\ Entry(BOOL, UINT) = Less

====
